---- MODULE Spec2Model ----
(***************************************************************************)
(* A model of the client-side calculator of src/app.js: the three engine   *)
(* variables (input, stored, operator), the two output elements (display   *)
(* and status text) and one action per event handler.                      *)
(*                                                                         *)
(* JavaScript strings are modelled as sequences of one-character strings   *)
(* ("texts"), so that slicing, prefix tests and concatenation are what the *)
(* code does.  JavaScript numbers are modelled as the doubles they are: a  *)
(* sign, a mantissa of 53 bits at most and a binary exponent, every        *)
(* operation rounded to the nearest double, a tie to the even one;         *)
(* parseFloat, toPrecision and toString convert between texts and doubles  *)
(* as the language defines them.                                           *)
(***************************************************************************)
EXTENDS Bags, FiniteSets, Integers, Sequences, TLC

(***************************************************************************)
(* Texts                                                                   *)
(***************************************************************************)
\* JavaScript null; a text of its own, equal to no text of characters.
Null == <<"null">>

EmptyText == <<>>

DigitChars == <<"0", "1", "2", "3", "4", "5", "6", "7", "8", "9">>

IsDigit(c) == c \in {"0", "1", "2", "3", "4", "5", "6", "7", "8", "9"}

\* The value of each digit character.
DigitValues ==
  [c \in {"0", "1", "2", "3", "4", "5", "6", "7", "8", "9"} |->
     (CHOOSE i \in 1..10 : DigitChars[i] = c) - 1]

DigitVal(c) == DigitValues[c]

DigitChar(d) == DigitChars[d + 1]

\* String.prototype.includes, for a one-character needle.
includes(s, ch) == \E i \in 1..Len(s) : s[i] = ch

\* String.prototype.startsWith, for a one-character prefix.
startsWith(s, ch) == Len(s) > 0 /\ s[1] = ch

\* s.slice(1)
sliceFrom1(s) == SubSeq(s, 2, Len(s))

\* s.slice(0, -1)
sliceDropLast(s) == SubSeq(s, 1, Len(s) - 1)

\* The truth value of a string or null: null and "" are falsy.
Truthy(s) == s # Null /\ s # EmptyText

Front(d) == SubSeq(d, 1, Len(d) - 1)

Last(d) == d[Len(d)]

Repeat(c, n) == [i \in 1..n |-> c]

\* The decimal digits of a natural number, as a text.
RECURSIVE NatText(_)
NatText(n) == IF n < 10 THEN <<DigitChar(n)>>
              ELSE NatText(n \div 10) \o <<DigitChar(n % 10)>>

\* The text of a sequence of digit values.
DigitsText(d) == [i \in 1..Len(d) |-> DigitChar(d[i])]

Min(a, b) == IF a < b THEN a ELSE b

Max(a, b) == IF a > b THEN a ELSE b

(***************************************************************************)
(* Natural numbers of any size, as sequences of limbs: the digits of the   *)
(* number in base 32768 (15 bits), least significant first, the last one   *)
(* not 0 (zero is the empty sequence).  A product of two limbs is under    *)
(* 2^30, within the integers of the checker.                               *)
(***************************************************************************)
\* The i-th limb of a, 0 beyond its length.
At(a, i) == IF 1 <= i /\ i <= Len(a) THEN a[i] ELSE 0

\* a without its most significant limbs that are 0.
RECURSIVE Trim(_)
Trim(a) ==
  IF a = <<>> \/ a[Len(a)] # 0 THEN a ELSE Trim(SubSeq(a, 1, Len(a) - 1))

\* The limbs of the sums s (each under 2^30) from the i-th up, the carry c
\* coming in.
RECURSIVE CarryFrom(_, _, _)
CarryFrom(s, i, c) ==
  IF i > Len(s) THEN (IF c = 0 THEN <<>> ELSE <<c>>)
  ELSE <<(s[i] + c) % 32768>> \o CarryFrom(s, i + 1, (s[i] + c) \div 32768)

\* The number of the limb sums s, each under 2^30.
Carried(s) == Trim(CarryFrom(s, 1, 0))

AddN(a, b) ==
  Carried(<<>> \o [k \in 1..Max(Len(a), Len(b)) |-> At(a, k) + At(b, k)])

\* A borrow enters the limb k of a - b: at the nearest limb below k where
\* a and b differ, a is the smaller.
BorrowInto(a, b, k) ==
  \E j \in 1..(k - 1) :
    At(a, j) < At(b, j) /\ \A t \in (j + 1)..(k - 1) : At(a, t) = At(b, t)

\* a - b for a >= b
SubN(a, b) ==
  Trim([k \in 1..Len(a) |->
          (At(a, k) - At(b, k) - (IF BorrowInto(a, b, k) THEN 1 ELSE 0)
             + 32768) % 32768])

\* The most significant limb where a and b, of one length, differ.
TopDiff(a, b) ==
  CHOOSE i \in 1..Len(a) :
    a[i] # b[i] /\ \A j \in (i + 1)..Len(a) : a[j] = b[j]

\* -1, 0 or 1 as a is under, equal to or over b.
CmpN(a, b) ==
  IF Len(a) # Len(b) THEN (IF Len(a) < Len(b) THEN -1 ELSE 1)
  ELSE IF a = b THEN 0
  ELSE IF a[TopDiff(a, b)] < b[TopDiff(a, b)] THEN -1 ELSE 1

\* a * k for one limb k
MulSmallN(a, k) == Carried(<<>> \o [i \in 1..Len(a) |-> a[i] * k])

\* The terms of the k-th column of the long multiplication of a by b: the
\* i with a[i] * b[k + 1 - i] a product of the column and not 0.
ColTerms(a, b, k) ==
  {i \in Max(1, k + 1 - Len(b))..Min(Len(a), k) :
     a[i] # 0 /\ b[k + 1 - i] # 0}

\* The sum of the low limbs of the products of the k-th column (a bag
\* counts from 1, so each term is counted one over).
ColLow(a, b, k) ==
  BagCardinality(
    [i \in ColTerms(a, b, k) |-> ((a[i] * b[k + 1 - i]) % 32768) + 1])
    - Cardinality(ColTerms(a, b, k))

\* The sum of the high limbs of the products of the k-th column.
ColHigh(a, b, k) ==
  BagCardinality(
    [i \in ColTerms(a, b, k) |-> ((a[i] * b[k + 1 - i]) \div 32768) + 1])
    - Cardinality(ColTerms(a, b, k))

\* The column sums of the long multiplication of a by b: the low limbs of
\* the k-th column and the high limbs of the one below.
Cols(a, b) ==
  [k \in 1..(Len(a) + Len(b)) |-> ColLow(a, b, k) + ColHigh(a, b, k - 1)]

\* a * b
MulN(a, b) ==
  IF a = <<>> \/ b = <<>> THEN <<>>
  ELSE IF Len(b) = 1 THEN MulSmallN(a, b[1])
  ELSE IF Len(a) = 1 THEN MulSmallN(b, a[1])
  ELSE Carried(<<>> \o Cols(a, b))

\* The number of bits of a limb that is not 0.
LimbBits(x) == CHOOSE n \in 1..15 : 2 ^ (n - 1) <= x /\ x < 2 ^ n

\* The number of bits of a (0 for zero).
BitLength(a) ==
  IF a = <<>> THEN 0 ELSE 15 * (Len(a) - 1) + LimbBits(a[Len(a)])

\* The number of zero bits at the low end of a limb that is not 0.
LimbZeros(x) ==
  CHOOSE t \in 0..14 : x % (2 ^ t) = 0 /\ (x \div (2 ^ t)) % 2 = 1

\* The lowest limb of a # 0 that is not 0.
LowLimb(a) ==
  CHOOSE i \in 1..Len(a) : a[i] # 0 /\ \A j \in 1..(i - 1) : a[j] = 0

\* The number of zero bits at the low end of a # 0.
TrailingZeros(a) == 15 * (LowLimb(a) - 1) + LimbZeros(a[LowLimb(a)])

\* a * 2^s
ShiftLeft(a, s) ==
  IF a = <<>> THEN <<>>
  ELSE Repeat(0, s \div 15) \o MulSmallN(a, 2 ^ (s % 15))

\* a without its q low limbs, then divided by p, a power of 2 under 32768.
ShiftedRight(a, q, p) ==
  Trim([i \in 1..(Len(a) - q) |->
          (a[i + q] \div p) + ((At(a, i + q + 1) % p) * (32768 \div p))])

\* a \div 2^s
ShiftRight(a, s) == ShiftedRight(a, s \div 15, 2 ^ (s % 15))

\* One of the s low bits of a is 1.
AnyLow(a, s) ==
  \/ \E i \in 1..Min(Len(a), s \div 15) : a[i] # 0
  \/ At(a, (s \div 15) + 1) % (2 ^ (s % 15)) # 0

\* The bit of a that counts 2^s.
BitAt(a, s) == (At(a, (s \div 15) + 1) \div (2 ^ (s % 15))) % 2

\* The 15 leading bits of b, of two limbs or more.
Lead(b) ==
  (b[Len(b)] * 32768 + b[Len(b) - 1]) \div (2 ^ LimbBits(b[Len(b)]))

\* r, under b * 32768, cut where Lead cuts b.
LeadOf(r, b) ==
  (At(r, Len(b) + 1) * (2 ^ (30 - LimbBits(b[Len(b)]))))
    + ((At(r, Len(b)) * 32768 + At(r, Len(b) - 1))
         \div (2 ^ LimbBits(b[Len(b)])))

\* The quotient of r by b, between lo and hi.
QuotientBetween(r, b, lo, hi) ==
  CHOOSE q \in lo..hi :
    /\ CmpN(MulSmallN(b, q), r) <= 0
    /\ CmpN(AddN(MulSmallN(b, q), b), r) > 0

\* The quotient of r by b for r under b * 32768: the quotient of their
\* leading bits bounds it.
QuotientLimb(r, b) ==
  IF CmpN(r, b) < 0 THEN 0
  ELSE IF Len(b) = 1 THEN (At(r, 2) * 32768 + At(r, 1)) \div b[1]
  ELSE QuotientBetween(r, b, LeadOf(r, b) \div (Lead(b) + 1),
                       Min(32767, (LeadOf(r, b) + 1) \div Lead(b)))

\* One step of the long division by b: p is the quotient and the remainder
\* so far, r that remainder with the next limb brought down, k the next
\* limb of the quotient.
DivStep(p, r, b, k) ==
  [q |-> <<k>> \o p.q, r |-> SubN(r, MulSmallN(b, k))]

DivAppended(p, r, b) == DivStep(p, r, b, QuotientLimb(r, b))

\* The step of the division by one limb d, x the remainder so far with the
\* next limb brought down.
DivSmallStep(p, x, d) == [q |-> <<x \div d>> \o p.q, r |-> Trim(<<x % d>>)]

DivNext(p, limb, b) ==
  IF p.r = <<>> /\ limb = 0 THEN [q |-> <<0>> \o p.q, r |-> <<>>]
  ELSE IF Len(b) = 1 THEN DivSmallStep(p, At(p.r, 1) * 32768 + limb, b[1])
  ELSE DivAppended(p, Trim(<<limb>> \o p.r), b)

\* The quotient (not trimmed) and the remainder by b # 0 of the limbs of a
\* from the i-th up: the Len(b) - 1 highest limbs of a are a remainder.
RECURSIVE DivFrom(_, _, _)
DivFrom(a, b, i) ==
  IF i > Len(a) - Len(b) + 1
  THEN [q |-> <<>>, r |-> Trim(SubSeq(a, i, Len(a)))]
  ELSE DivNext(DivFrom(a, b, i + 1), a[i], b)

DivResult(p) == [q |-> Trim(p.q), r |-> p.r]

\* The quotient and the remainder of a by b, b # 0.
DivModN(a, b) == DivResult(DivFrom(a, b, 1))

Square(a) == MulN(a, a)

\* b^k for one limb b
RECURSIVE PowN(_, _)
PowN(b, k) ==
  IF k = 0 THEN <<1>>
  ELSE IF k = 1 THEN <<b>>
  ELSE IF k % 2 = 1 THEN MulSmallN(PowN(b, k - 1), b)
  ELSE Square(PowN(b, k \div 2))

\* 10^k
Pow10(k) ==
  IF k % 4 = 0 THEN PowN(10000, k \div 4)
  ELSE MulSmallN(PowN(10000, k \div 4), 10 ^ (k % 4))

\* The digit of d (decimal digits, most significant first) p places from
\* the right, 0 beyond its length.
DigitAt(d, p) == IF p <= Len(d) THEN d[Len(d) + 1 - p] ELSE 0

\* The number of the four last decimal digits of d.
Last4(d) ==
  Trim(<<DigitAt(d, 1) + 10 * DigitAt(d, 2) + 100 * DigitAt(d, 3)
           + 1000 * DigitAt(d, 4)>>)

\* The number of the decimal digits d (leading zeros allowed).
RECURSIVE ToLimbs(_)
ToLimbs(d) ==
  IF Len(d) <= 4 THEN Last4(d)
  ELSE AddN(MulSmallN(ToLimbs(SubSeq(d, 1, Len(d) - 4)), 10000), Last4(d))

\* The four decimal digits of x under 10000.
Digits4(x) == <<x \div 1000, (x \div 100) % 10, (x \div 10) % 10, x % 10>>

\* The decimal digits of x under 10000, no leading zero (none for 0).
SmallDigits(x) ==
  IF x >= 1000 THEN Digits4(x)
  ELSE IF x >= 100 THEN SubSeq(Digits4(x), 2, 4)
  ELSE IF x >= 10 THEN SubSeq(Digits4(x), 3, 4)
  ELSE IF x >= 1 THEN <<x>>
  ELSE <<>>

\* The decimal digits of a, most significant first, no leading zero (none
\* for zero): four at a time, from the remainders by 10000.
RECURSIVE FromLimbs(_)
FromQuotient(qr) == FromLimbs(qr.q) \o Digits4(At(qr.r, 1))

FromLimbs(a) ==
  IF Len(a) <= 1 /\ At(a, 1) < 10000 THEN SmallDigits(At(a, 1))
  ELSE FromQuotient(DivModN(a, <<10000>>))

(***************************************************************************)
(* Numbers: the doubles.  A finite one is neg * m * 2^e, with m an odd     *)
(* natural of 53 bits at most and e from -1074 up, the whole under 2^1024  *)
(* (zero has no m, and e = 0); the others are NaN and the two infinities.  *)
(***************************************************************************)
Zero(neg) == [k |-> "num", neg |-> neg, m |-> <<>>, e |-> 0]

NaN == [k |-> "nan", neg |-> FALSE, m |-> <<>>, e |-> 0]

Infinity(neg) == [k |-> "inf", neg |-> neg, m |-> <<>>, e |-> 0]

isNaN(v) == v.k = "nan"

isFinite(v) == v.k = "num"

\* v === 0 (true of -0 as well)
IsZero(v) == v.k = "num" /\ v.m = <<>>

\* The double n * 2^e, t zero bits at the low end of n # 0.
Stripped(neg, n, e, t) ==
  [k |-> "num", neg |-> neg, m |-> ShiftRight(n, t), e |-> e + t]

\* The double of n * 2^e for n of 53 bits at most and e from -1074 up:
\* 2^1024 and beyond is an infinity.
Finite(neg, n, e) ==
  IF n = <<>> THEN Zero(neg)
  ELSE IF BitLength(n) + e > 1024 THEN Infinity(neg)
  ELSE Stripped(neg, n, e, TrailingZeros(n))

\* A cut left q and took the half bit h (0 or 1) and, when low, more under
\* it: q goes up over the half, or at the half when q is odd.
RoundsUp(q, h, low) == h = 1 /\ (low \/ At(q, 1) % 2 = 1)

\* q, what a cut left, or the next number as the cut rounds.
RoundedUp(q, h, low) == IF RoundsUp(q, h, low) THEN AddN(q, <<1>>) ELSE q

\* n cut of its g > 0 low bits, to the nearest, a tie to the even; sticky
\* says that the exact value is a little over n * 2^e.
RoundCut(neg, n, e, sticky, g) ==
  Finite(neg,
         RoundedUp(ShiftRight(n, g), BitAt(n, g - 1),
                   sticky \/ AnyLow(n, g - 1)),
         e + g)

\* n * 2^e with the g low bits of n cut when g > 0.
RoundAt(neg, n, e, sticky, g) ==
  IF g <= 0 THEN Finite(neg, n, e) ELSE RoundCut(neg, n, e, sticky, g)

\* The double nearest to n * 2^e, a tie to the even one.  The double keeps
\* 53 bits of n, or fewer so that its exponent is not under -1074.
RoundBin(neg, n, e, sticky) ==
  IF n = <<>> THEN Zero(neg)
  ELSE RoundAt(neg, n, e, sticky, Max(BitLength(n) - 53, -1074 - e))

RoundQuot(neg, qr, e) == RoundBin(neg, qr.q, e, qr.r # <<>>)

\* n / d * 2^e from the quotient of n * 2^s by d, s chosen so that the
\* quotient has 56 bits or more.
RoundScaled(neg, n, d, e, s) ==
  RoundQuot(neg,
            IF s >= 0 THEN DivModN(ShiftLeft(n, s), d)
            ELSE DivModN(n, ShiftLeft(d, -s)),
            e - s)

\* The double nearest to n / d * 2^e, d # 0.
RoundDiv(neg, n, d, e) ==
  IF n = <<>> THEN Zero(neg)
  ELSE RoundScaled(neg, n, d, e, 56 + BitLength(d) - BitLength(n))

\* The double nearest to m * 10^x: beyond 1e310 an infinity, under 1e-330
\* zero, whatever m.
DecimalValue(neg, m, x) ==
  IF m = <<>> THEN Zero(neg)
  ELSE IF x > 310 THEN Infinity(neg)
  ELSE IF 30103 * BitLength(m) + 100000 * x < -33000000 THEN Zero(neg)
  ELSE IF x >= 0 THEN RoundBin(neg, MulN(m, Pow10(x)), 0, FALSE)
  ELSE RoundDiv(neg, m, Pow10(-x), 0)

NegV(v) == [v EXCEPT !.neg = ~v.neg]

\* The sum of an * a * 2^e and bn * b * 2^e, a and b not 0.
AddAligned(an, a, bn, b, e) ==
  IF an = bn THEN RoundBin(an, AddN(a, b), e, FALSE)
  ELSE IF a = b THEN Zero(FALSE)
  ELSE IF CmpN(a, b) > 0 THEN RoundBin(an, SubN(a, b), e, FALSE)
  ELSE RoundBin(bn, SubN(b, a), e, FALSE)

\* a + b
AddV(a, b) ==
  IF a.k = "nan" \/ b.k = "nan" THEN NaN
  ELSE IF a.k = "inf"
  THEN (IF b.k = "inf" /\ a.neg # b.neg THEN NaN ELSE a)
  ELSE IF b.k = "inf" THEN b
  ELSE IF a.m = <<>> THEN (IF b.m = <<>> THEN Zero(a.neg /\ b.neg) ELSE b)
  ELSE IF b.m = <<>> THEN a
  ELSE AddAligned(a.neg, ShiftLeft(a.m, a.e - Min(a.e, b.e)),
                  b.neg, ShiftLeft(b.m, b.e - Min(a.e, b.e)),
                  Min(a.e, b.e))

\* a - b
SubV(a, b) == AddV(a, NegV(b))

\* a * b
MulV(a, b) ==
  IF a.k = "nan" \/ b.k = "nan" THEN NaN
  ELSE IF a.k = "inf" \/ b.k = "inf"
  THEN (IF IsZero(a) \/ IsZero(b) THEN NaN ELSE Infinity(a.neg # b.neg))
  ELSE RoundBin(a.neg # b.neg, MulN(a.m, b.m), a.e + b.e, FALSE)

\* a / b
DivV(a, b) ==
  IF a.k = "nan" \/ b.k = "nan" THEN NaN
  ELSE IF a.k = "inf"
  THEN (IF b.k = "inf" THEN NaN ELSE Infinity(a.neg # b.neg))
  ELSE IF b.k = "inf" THEN Zero(a.neg # b.neg)
  ELSE IF IsZero(b)
  THEN (IF IsZero(a) THEN NaN ELSE Infinity(a.neg # b.neg))
  ELSE RoundDiv(a.neg # b.neg, a.m, b.m, a.e - b.e)

\* a % b: the remainder of the magnitudes, with the sign of a
ModV(a, b) ==
  IF a.k # "num" \/ b.k = "nan" \/ IsZero(b) THEN NaN
  ELSE IF b.k = "inf" \/ IsZero(a) THEN a
  ELSE RoundBin(a.neg,
                DivModN(ShiftLeft(a.m, a.e - Min(a.e, b.e)),
                        ShiftLeft(b.m, b.e - Min(a.e, b.e))).r,
                Min(a.e, b.e), FALSE)

\* The decimal digits d of q with their power of ten x; more says that the
\* value they stand for is a little over d * 10^x.
Digits(q, x, more) == [d |-> FromLimbs(q), x |-> x, more |-> more]

\* The integer part of n * 2^e * 10^(-x), n * 2^e an integer when e >= 0.
ScaledBy(n, e, x) ==
  IF e >= 0 THEN Digits(ShiftLeft(n, e), x, FALSE)
  ELSE Digits(ShiftRight(n, -e), x, AnyLow(n, -e))

\* The same from the quotient and the remainder qr of a division by 10^x,
\* the quotient still to divide by 2^(-e) when e < 0.
ScaledOver(qr, e, x) ==
  IF e >= 0 THEN Digits(qr.q, x, qr.r # <<>>)
  ELSE Digits(ShiftRight(qr.q, -e), x, qr.r # <<>> \/ AnyLow(qr.q, -e))

\* The integer part of v * 10^k, in decimal: the powers of 2 and of 10
\* that multiply go on m first, then the ones that divide.
Scaled(v, k) ==
  IF k >= 0 THEN ScaledBy(MulN(v.m, Pow10(k)), v.e, -k)
  ELSE ScaledOver(DivModN(IF v.e >= 0 THEN ShiftLeft(v.m, v.e) ELSE v.m,
                          Pow10(-k)),
                  v.e, -k)

\* The n first decimal digits d (or n + 1) of a finite v # 0 with their
\* power of ten x: v is d * 10^x, or a little over when more.  The power
\* of ten of the first digit is at least the one estimated here from the
\* number of bits of v, and at most the next.
Expanded(v, n) ==
  Scaled(v, n - 1 - ((30103 * (BitLength(v.m) + v.e - 1) - 1000) \div 100000))

\* The 100 of "val / 100": 25 * 2^2
Hundred == [k |-> "num", neg |-> FALSE, m |-> <<25>>, e |-> 2]

(***************************************************************************)
(* parseFloat: the value of the longest prefix of the text that is a       *)
(* decimal literal, NaN when there is none.                                *)
(***************************************************************************)
\* The number of digit characters of s from index i on.
DigitsRun(s, i) ==
  CHOOSE n \in 0..Len(s) :
    /\ i + n - 1 <= Len(s)
    /\ \A j \in i..(i + n - 1) : IsDigit(s[j])
    /\ (i + n > Len(s) \/ ~IsDigit(s[i + n]))

InfinityText == <<"I", "n", "f", "i", "n", "i", "t", "y">>

HasPrefixAt(s, i, p) ==
  /\ i + Len(p) - 1 <= Len(s)
  /\ \A j \in 1..Len(p) : s[i + j - 1] = p[j]

\* The value of a run of exponent digits, cut at 9999 (beyond every double).
RECURSIVE ExpValue(_)
ExpValue(d) ==
  IF d = <<>> THEN 0
  ELSE Min(9999, 10 * ExpValue(Front(d)) + DigitVal(Last(d)))

\* The literal's value: sign, the digits of s from i0 on (nInt before the
\* "." and nFrac after it) and the exponent ex.
literalValue(s, i0, nInt, nFrac, ex) ==
  DecimalValue(s[1] = "-",
               ToLimbs([j \in 1..(nInt + nFrac) |->
                          DigitVal(IF j <= nInt THEN s[i0 + j - 1]
                                   ELSE s[i0 + j])]),
               ex - nFrac)

\* The exponent part, if any, at index ie: "e" or "E", a sign or none (esgn
\* characters), then nExp > 0 digits.
parseExponent(s, i0, nInt, nFrac, ie, esgn, nExp) ==
  literalValue(s, i0, nInt, nFrac,
               IF nExp = 0 THEN 0
               ELSE IF s[ie + 1] = "-"
               THEN -ExpValue(SubSeq(s, ie + 2, ie + 1 + nExp))
               ELSE ExpValue(SubSeq(s, ie + 1 + esgn, ie + esgn + nExp)))

\* The mantissa is there (a digit before or after the "."), and ends
\* before index ie.
parseMantissa(s, i0, nInt, nFrac, ie) ==
  IF nInt + nFrac = 0
  THEN (IF HasPrefixAt(s, i0, InfinityText) THEN Infinity(s[1] = "-")
        ELSE NaN)
  ELSE IF ie <= Len(s) /\ s[ie] \in {"e", "E"}
  THEN LET esgn == IF ie + 1 <= Len(s) /\ s[ie + 1] \in {"-", "+"}
                   THEN 1 ELSE 0
       IN parseExponent(s, i0, nInt, nFrac, ie, esgn,
                        DigitsRun(s, ie + 1 + esgn))
  ELSE literalValue(s, i0, nInt, nFrac, 0)

\* The digits after the ".", if there is one after the nInt digits.
parseFraction(s, i0, nInt, hasDot, nFrac) ==
  parseMantissa(s, i0, nInt, nFrac,
                i0 + nInt + (IF hasDot /\ nInt + nFrac > 0 THEN 1 + nFrac
                             ELSE 0))

parseInteger(s, i0, nInt) ==
  LET hasDot == i0 + nInt <= Len(s) /\ s[i0 + nInt] = "."
  IN parseFraction(s, i0, nInt, hasDot,
                   IF hasDot THEN DigitsRun(s, i0 + nInt + 1) ELSE 0)

parseSigned(s, i0) == parseInteger(s, i0, DigitsRun(s, i0))

parseFloat(s) ==
  IF s = <<>> THEN NaN
  ELSE parseSigned(s, IF s[1] \in {"-", "+"} THEN 2 ELSE 1)

(***************************************************************************)
(* Number to text                                                          *)
(***************************************************************************)
\* The digits d without their zeros at the end.
StripTrailingZeros(d) ==
  IF \A i \in 1..Len(d) : d[i] = 0 THEN <<>>
  ELSE SubSeq(d, 1, CHOOSE i \in 1..Len(d) :
                      d[i] # 0 /\ \A j \in (i + 1)..Len(d) : d[j] = 0)

\* The digits of the number after the one of the digits d.
Succ(d) == FromLimbs(AddN(ToLimbs(d), <<1>>))

\* The outcome of a rounding to p digits: the digits r, or their first p
\* and 1 in carry when the rounding reached the next power of ten.
Rounded(r, p) ==
  IF Len(r) > p THEN [d |-> SubSeq(r, 1, p), carry |-> 1]
  ELSE [d |-> r, carry |-> 0]

\* m (non-zero, no leading zero) rounded to p significant digits, a tie
\* going up.
RoundSig(m, p) ==
  IF Len(m) <= p THEN [d |-> m \o Repeat(0, p - Len(m)), carry |-> 0]
  ELSE IF m[p + 1] >= 5 THEN Rounded(Succ(SubSeq(m, 1, p)), p)
  ELSE Rounded(SubSeq(m, 1, p), p)

\* The exponent part of a number in exponential notation.
ExponentText(e) ==
  <<"e", IF e < 0 THEN "-" ELSE "+">> \o NatText(IF e < 0 THEN -e ELSE e)

\* String(n) of a value that is not finite.
NonFiniteText(v) ==
  IF v.k = "nan" THEN <<"N", "a", "N">>
  ELSE (IF v.neg THEN <<"-">> ELSE <<>>) \o InfinityText

SignText(v) == IF v.neg THEN <<"-">> ELSE <<>>

\* The text of p digits D with the exponent e of the first one: exponential
\* notation when e is under -6 or at least p, fixed notation otherwise.
precisionText(D, e, p) ==
  IF e < -6 \/ e >= p
  THEN <<D[1], ".">> \o SubSeq(D, 2, p) \o ExponentText(e)
  ELSE IF e = p - 1 THEN D
  ELSE IF e >= 0 THEN SubSeq(D, 1, e + 1) \o <<".">> \o SubSeq(D, e + 2, p)
  ELSE <<"0", ".">> \o Repeat("0", -(e + 1)) \o D

\* toPrecision from the rounding r of the digits, e the exponent of the
\* first digit before the rounding.
precisionRounded(v, r, e, p) ==
  SignText(v) \o precisionText(DigitsText(r.d), e + r.carry, p)

\* toPrecision from the p + 1 first digits D of the value (or more).
precisionExpanded(v, D, p) ==
  precisionRounded(v, RoundSig(D.d, p), Len(D.d) + D.x - 1, p)

\* Number.prototype.toPrecision(p) of a finite value, p > 1: the p digits
\* nearest to the exact value of the double, a tie going up.
toPrecision(v, p) ==
  IF v.m = <<>> THEN <<"0", ".">> \o Repeat("0", p - 1)
  ELSE precisionExpanded(v, Expanded(v, p + 1), p)

\* The first k digits of D, of more than k digits, with their power of ten.
Below(D, k) == [d |-> SubSeq(D.d, 1, k), x |-> D.x + Len(D.d) - k]

\* The number of k digits next over Below(D, k).
Above(D, k) ==
  [d |-> Succ(SubSeq(D.d, 1, k)), x |-> D.x + Len(D.d) - k]

\* The decimal c reads back as the double v.
ReadsAs(v, c) == DecimalValue(v.neg, ToLimbs(c.d), c.x) = v

\* A decimal of k digits reads back as v, of first digits D: if any does,
\* one of the two that enclose v does.
Fits(v, D, k) == ReadsAs(v, Below(D, k)) \/ ReadsAs(v, Above(D, k))

\* The least number of digits that read back as v (17 always do), D the 18
\* first digits of v or more.
ShortestLen(v, D) ==
  CHOOSE k \in 1..17 : Fits(v, D, k) /\ (k = 1 \/ ~Fits(v, D, k - 1))

\* Of the two decimals of k digits that enclose v, of first digits D, the
\* one above is the nearer, or as near and the even one.
AboveNearer(D, k) ==
  \/ D.d[k + 1] > 5
  \/ /\ D.d[k + 1] = 5
     /\ \/ D.more
        \/ \E j \in (k + 2)..Len(D.d) : D.d[j] # 0
        \/ D.d[k] % 2 = 1

\* The decimal of k digits that reads back as v, the nearer to v of the two
\* that enclose it when both do.
Shortest(v, D, k) ==
  IF AboveNearer(D, k) /\ ReadsAs(v, Above(D, k)) THEN Above(D, k)
  ELSE IF ReadsAs(v, Below(D, k)) THEN Below(D, k)
  ELSE Above(D, k)

\* The text of the digits D (the last one not 0), n of them before the
\* point: fixed notation from 1e-6 up to 1e21, exponential notation beyond.
shortestText(D, n) ==
  IF Len(D) <= n /\ n <= 21 THEN D \o Repeat("0", n - Len(D))
  ELSE IF 0 < n /\ n <= 21
  THEN SubSeq(D, 1, n) \o <<".">> \o SubSeq(D, n + 1, Len(D))
  ELSE IF -6 < n /\ n <= 0 THEN <<"0", ".">> \o Repeat("0", -n) \o D
  ELSE IF Len(D) = 1 THEN D \o ExponentText(n - 1)
  ELSE <<D[1], ".">> \o SubSeq(D, 2, Len(D)) \o ExponentText(n - 1)

\* toString from the shortest decimal c that reads back as v.
shortestRounded(v, c) ==
  SignText(v) \o shortestText(DigitsText(StripTrailingZeros(c.d)),
                              Len(c.d) + c.x)

\* toString from the 18 first digits D of the value (or more).
shortestExpanded(v, D) == shortestRounded(v, Shortest(v, D, ShortestLen(v, D)))

\* Number.prototype.toString(): the shortest digits that read back as the
\* double.
NumberToString(v) ==
  IF v.k # "num" THEN NonFiniteText(v)
  ELSE IF v.m = <<>> THEN <<"0">>
  ELSE shortestExpanded(v, Expanded(v, 18))

RECURSIVE StripTrailingZeroChars(_)
StripTrailingZeroChars(s) ==
  IF s # <<>> /\ Last(s) = "0" THEN StripTrailingZeroChars(Front(s)) ELSE s

\* s.replace(/(\.\d*?[1-9])0+$/, '$1'): when the text ends with a "." that
\* is followed by digits only, of which one is not 0 and the last is 0, the
\* zeros at the end go.
TrimZerosAfterDigit(s) ==
  LET matches(i) == /\ s[i] = "."
                    /\ \A j \in (i + 1)..Len(s) : IsDigit(s[j])
                    /\ \E j \in (i + 1)..Len(s) : s[j] # "0"
                    /\ Last(s) = "0"
  IN IF \E i \in 1..Len(s) : matches(i) THEN StripTrailingZeroChars(s) ELSE s

\* s.replace(/\.0+$/, ''): when the text ends with a "." followed by one or
\* more zeros and nothing else, they go, the "." included.
TrimDotZeros(s) ==
  LET matches(i) == /\ s[i] = "."
                    /\ i < Len(s)
                    /\ \A j \in (i + 1)..Len(s) : s[j] = "0"
  IN IF \E i \in 1..Len(s) : matches(i)
     THEN SubSeq(s, 1, (CHOOSE i \in 1..Len(s) : matches(i)) - 1)
     ELSE s

\* The trimming of formatNumber: both replacements, when s has a ".".
trimZeros(s) ==
  IF includes(s, ".") THEN TrimDotZeros(TrimZerosAfterDigit(s)) ELSE s

\* formatNumber from its toPrecision call, which returned s, on.
formatPrecise(n, s) ==
  IF includes(s, "e") THEN trimZeros(NumberToString(n)) ELSE trimZeros(s)

\* formatNumber(n)
formatNumber(n) ==
  IF ~isFinite(n) THEN NonFiniteText(n) ELSE formatPrecise(n, toPrecision(n, 12))

(***************************************************************************)
(* The calculator                                                          *)
(***************************************************************************)
\* The events explored: each run delivers at most MaxEvents events.
MaxEvents == 5

\* The digit keys explored, of "0".."9" and ".".
Keys == {"0", "1", "5", "."}

\* The operator keys.
Ops == {<<"+">>, <<"-">>, <<"*">>, <<"/">>, <<"%">>}

VARIABLES
  input,      \* the number being typed, a text
  stored,     \* the left operand, a text or Null
  operator,   \* the pending operator, a text of Ops or Null
  display,    \* displayEl.textContent
  status,     \* statusEl.textContent
  prev,       \* history: the five above before the last event
  lastEvent,  \* history: the last event, and whether its evaluation failed
  shadow,     \* history: the calculator a Clear would have left in the
              \* place of the last failed evaluation, fed the same events
  typed,      \* history: the keys of the Digit events since the cleared
              \* state, Null once another event came
  nEvents     \* the events delivered so far

vars == <<input, stored, operator, display, status, prev, lastEvent, shadow,
          typed, nEvents>>

\* The calculator's state as one value.
Cur == [input |-> input, stored |-> stored, operator |-> operator,
        display |-> display, status |-> status]

ErrorText == <<"E", "r", "r", "o", "r">>

InvalidNumber == <<"I", "n", "v", "a", "l", "i", "d", " ",
                   "n", "u", "m", "b", "e", "r">>

DivisionByZero == <<"D", "i", "v", "i", "s", "i", "o", "n", " ",
                    "b", "y", " ", "z", "e", "r", "o">>

UnsupportedOperator == <<"U", "n", "s", "u", "p", "p", "o", "r", "t", "e", "d",
                         " ", "o", "p", "e", "r", "a", "t", "o", "r">>

\* updateDisplay(text)
updateDisplay(s, text) == [s EXCEPT !.display = text]

\* clearAll()
clearAll(s) ==
  [input |-> EmptyText, stored |-> Null, operator |-> Null,
   display |-> <<"0">>, status |-> EmptyText]

\* A faulty variant of setInputChar, to test C17 against: a digit is put
\* after the input "0" instead of in its place.
setInputCharAfterZero(s, ch) ==
  IF ch = "." /\ includes(s.input, ".") THEN s
  ELSE LET i1 == IF ch = "." /\ s.input = EmptyText THEN <<"0">> ELSE s.input
       IN updateDisplay([s EXCEPT !.input = i1 \o <<ch>>], i1 \o <<ch>>)

\* A faulty variant of setInputChar, to test C18 against: a second "." is
\* taken like any other character.
setInputCharSecondDot(s, ch) ==
  LET i1 == IF ch = "." /\ s.input = EmptyText THEN <<"0">> ELSE s.input
      i2 == IF i1 = <<"0">> /\ ch # "." THEN <<ch>> ELSE i1 \o <<ch>>
  IN updateDisplay([s EXCEPT !.input = i2], i2)

\* setInputChar(ch)
setInputChar(s, ch) ==
  IF ch = "." /\ includes(s.input, ".") THEN s
  ELSE LET i1 == IF ch = "." /\ s.input = EmptyText THEN <<"0">> ELSE s.input
           i2 == IF i1 = <<"0">> /\ ch # "." THEN <<ch>> ELSE i1 \o <<ch>>
       IN updateDisplay([s EXCEPT !.input = i2], i2)

\* A faulty variant of toggleSign, to test C16 against: a "-" is put before
\* the input whether it has one or not.
toggleSignPrefixing(s) ==
  IF ~Truthy(s.input)
  THEN IF s.stored # Null
       THEN LET t == IF startsWith(s.stored, "-") THEN sliceFrom1(s.stored)
                     ELSE <<"-">> \o s.stored
            IN updateDisplay([s EXCEPT !.stored = t], t)
       ELSE updateDisplay([s EXCEPT !.input = <<"-", "0">>], <<"-", "0">>)
  ELSE updateDisplay([s EXCEPT !.input = <<"-">> \o s.input],
                     <<"-">> \o s.input)

\* toggleSign()
toggleSign(s) ==
  IF ~Truthy(s.input)
  THEN IF s.stored # Null
       THEN LET t == IF startsWith(s.stored, "-") THEN sliceFrom1(s.stored)
                     ELSE <<"-">> \o s.stored
            IN updateDisplay([s EXCEPT !.stored = t], t)
       ELSE updateDisplay([s EXCEPT !.input = <<"-", "0">>], <<"-", "0">>)
  ELSE LET t == IF startsWith(s.input, "-") THEN sliceFrom1(s.input)
                ELSE <<"-">> \o s.input
       IN updateDisplay([s EXCEPT !.input = t], t)

\* The result objects of computeLocal: { ok: true, result } and
\* { ok: false, error }.
Ok(result) == [ok |-> TRUE, result |-> result, error |-> Null]

Err(error) == [ok |-> FALSE, result |-> Null, error |-> error]

\* The switch of computeLocal on numbers a and b: the number res, or the
\* error it returns.
switchOp(a, b, op) ==
  CASE op = <<"+">> -> Ok(AddV(a, b))
    [] op = <<"-">> -> Ok(SubV(a, b))
    [] op = <<"*">> -> Ok(MulV(a, b))
    [] op = <<"/">> -> IF IsZero(b) THEN Err(DivisionByZero) ELSE Ok(DivV(a, b))
    [] op = <<"%">> -> IF IsZero(b) THEN Err(DivisionByZero) ELSE Ok(ModV(a, b))
    [] OTHER -> Err(UnsupportedOperator)

\* The last statement of computeLocal: the number of the switch, formatted.
formatResult(r) == IF r.ok THEN Ok(formatNumber(r.result)) ELSE r

\* computeLocal on the parsed operands.
computeParsed(a, b, op) ==
  IF isNaN(a) \/ isNaN(b) THEN Err(InvalidNumber)
  ELSE formatResult(switchOp(a, b, op))

\* computeLocal(aStr, bStr, op)
computeLocal(aStr, bStr, op) ==
  computeParsed(parseFloat(aStr), parseFloat(bStr), op)

\* A faulty variant of resetOnError, to test C5 against: the operands and
\* the operator survive the error.
resetOnErrorKeeping(s, error) ==
  [s EXCEPT !.display = ErrorText, !.status = error]

\* The reset of a failed evaluation (pressOperator, pressEquals).
resetOnError(s, error) ==
  [input |-> EmptyText, stored |-> Null, operator |-> Null,
   display |-> ErrorText, status |-> error]

\* `${stored} ${operator}`
OperatorStatus(st, op) == st \o <<" ">> \o op

\* A faulty variant of OperatorEval, to test C1 against: the evaluation
\* takes the operator just pressed and forgets the pending one.
OperatorEvalNewOp(s, op) == computeLocal(s.stored, s.input, op)

\* The evaluation pressOperator(op) runs when stored and input are both there.
OperatorEval(s, op) ==
  computeLocal(s.stored, s.input, IF Truthy(s.operator) THEN s.operator ELSE op)

\* pressOperator(op) from the return of its computeLocal call, r, on.
operatorEvaluated(s, op, r) ==
  IF ~r.ok THEN resetOnError(s, r.error)
  ELSE [input |-> EmptyText, stored |-> r.result, operator |-> op,
        display |-> r.result, status |-> OperatorStatus(r.result, op)]

\* A faulty variant of pressOperator, to test C7 against: an operator
\* pressed when nothing was entered is recorded instead of ignored.
pressOperatorRecorded(s, op) ==
  IF Truthy(s.input) /\ s.stored = Null
  THEN [input |-> EmptyText, stored |-> s.input, operator |-> op,
        display |-> s.input, status |-> OperatorStatus(s.input, op)]
  ELSE IF s.stored # Null /\ Truthy(s.input)
  THEN operatorEvaluated(s, op, OperatorEval(s, op))
  ELSE IF s.stored # Null /\ ~Truthy(s.input)
  THEN [s EXCEPT !.operator = op, !.status = OperatorStatus(s.stored, op)]
  ELSE [s EXCEPT !.operator = op]

\* A faulty variant of pressOperator, to test C12 against: the first
\* operand is stored as a formatted number instead of the text typed.
pressOperatorFormatted(s, op) ==
  IF Truthy(s.input) /\ s.stored = Null
  THEN operatorEvaluated(s, op, Ok(formatNumber(parseFloat(s.input))))
  ELSE IF s.stored # Null /\ Truthy(s.input)
  THEN operatorEvaluated(s, op, OperatorEval(s, op))
  ELSE IF s.stored # Null /\ ~Truthy(s.input)
  THEN [s EXCEPT !.operator = op, !.status = OperatorStatus(s.stored, op)]
  ELSE s

\* A faulty variant of pressOperator, to test C13 against: a second
\* operator in a row evaluates the stored operand against itself.
pressOperatorTwice(s, op) ==
  IF Truthy(s.input) /\ s.stored = Null
  THEN [input |-> EmptyText, stored |-> s.input, operator |-> op,
        display |-> s.input, status |-> OperatorStatus(s.input, op)]
  ELSE IF s.stored # Null /\ Truthy(s.input)
  THEN operatorEvaluated(s, op, OperatorEval(s, op))
  ELSE IF s.stored # Null /\ ~Truthy(s.input)
  THEN operatorEvaluated(s, op, computeLocal(s.stored, s.stored,
                                             IF Truthy(s.operator)
                                             THEN s.operator ELSE op))
  ELSE s

\* pressOperator(op)
pressOperator(s, op) ==
  IF Truthy(s.input) /\ s.stored = Null
  THEN [input |-> EmptyText, stored |-> s.input, operator |-> op,
        display |-> s.input, status |-> OperatorStatus(s.input, op)]
  ELSE IF s.stored # Null /\ Truthy(s.input)
  THEN operatorEvaluated(s, op, OperatorEval(s, op))
  ELSE IF s.stored # Null /\ ~Truthy(s.input)
  THEN [s EXCEPT !.operator = op, !.status = OperatorStatus(s.stored, op)]
  ELSE s

\* pressPercent() on the number val of the active operand: its new text,
\* or Null when val is NaN.
percentOf(val) ==
  IF isNaN(val) THEN Null ELSE formatNumber(DivV(val, Hundred))

\* pressPercent() from its parseFloat call on, t being percentOf its value.
percentApplied(s, t) ==
  IF t = Null THEN [s EXCEPT !.status = InvalidNumber]
  ELSE IF Truthy(s.input) THEN [s EXCEPT !.input = t, !.display = t]
  ELSE [s EXCEPT !.stored = t, !.display = t, !.status = EmptyText]

\* pressPercent()
pressPercent(s) ==
  IF Truthy(s.input) THEN percentApplied(s, percentOf(parseFloat(s.input)))
  ELSE IF s.stored # Null /\ ~Truthy(s.input)
  THEN percentApplied(s, percentOf(parseFloat(s.stored)))
  ELSE s

\* A faulty variant of EqualsB, to test C3 against: the right operand
\* falls back to "0".
EqualsBZero(s) == IF s.input = EmptyText THEN <<"0">> ELSE s.input

\* The operands of pressEquals(): the right one falls back to the left one.
EqualsA(s) == IF s.stored = Null THEN <<"0">> ELSE s.stored

EqualsB(s) ==
  IF s.input = EmptyText THEN (IF s.stored = Null THEN <<"0">> ELSE s.stored)
  ELSE s.input

\* The evaluation pressEquals() runs when an operator is pending.
EqualsEval(s) == computeLocal(EqualsA(s), EqualsB(s), s.operator)

\* `${a} ${operator} ${b} =`
EqualsStatus(a, op, b) == a \o <<" ">> \o op \o <<" ">> \o b \o <<" ", "=">>

\* A faulty variant of equalsEvaluated, to test C2 against: the operator
\* stays pending after a successful evaluation.
equalsEvaluatedPending(s, r) ==
  IF ~r.ok THEN resetOnError(s, r.error)
  ELSE [input |-> EmptyText, stored |-> r.result, operator |-> s.operator,
        display |-> r.result,
        status |-> EqualsStatus(EqualsA(s), s.operator, EqualsB(s))]

\* A faulty variant of equalsEvaluated, to test C6 against: a failed
\* evaluation leaves the input in place.
equalsEvaluatedInputKept(s, r) ==
  IF ~r.ok
  THEN [s EXCEPT !.stored = Null, !.operator = Null, !.display = ErrorText,
                 !.status = r.error]
  ELSE [input |-> EmptyText, stored |-> r.result, operator |-> Null,
        display |-> r.result,
        status |-> EqualsStatus(EqualsA(s), s.operator, EqualsB(s))]

\* pressEquals() from the return of its computeLocal call, r, on.
equalsEvaluated(s, r) ==
  IF ~r.ok THEN resetOnError(s, r.error)
  ELSE [input |-> EmptyText, stored |-> r.result, operator |-> Null,
        display |-> r.result,
        status |-> EqualsStatus(EqualsA(s), s.operator, EqualsB(s))]

\* A faulty variant of pressEquals, to test C14 against: it evaluates
\* whether an operator is pending or not.
pressEqualsAlways(s) == equalsEvaluated(s, EqualsEval(s))

\* pressEquals()
pressEquals(s) ==
  IF ~Truthy(s.operator)
  THEN IF Truthy(s.input) THEN updateDisplay(s, s.input)
       ELSE IF Truthy(s.stored) THEN updateDisplay(s, s.stored)
       ELSE s
  ELSE equalsEvaluated(s, EqualsEval(s))

\* A faulty variant of keydownBackspace, to test C11 against: the display
\* is not refreshed when a character goes.
keydownBackspaceStale(s) ==
  IF Truthy(s.input) THEN [s EXCEPT !.input = sliceDropLast(s.input)]
  ELSE [s EXCEPT !.operator = Null, !.status = EmptyText]

\* A faulty variant of keydownBackspace, to test C19 against: with an empty
\* input the stored operand goes with the operator.
keydownBackspaceStored(s) ==
  IF Truthy(s.input)
  THEN LET t == sliceDropLast(s.input)
       IN updateDisplay([s EXCEPT !.input = t],
                        IF Truthy(t) THEN t ELSE <<"0">>)
  ELSE [s EXCEPT !.stored = Null, !.operator = Null, !.status = EmptyText]

\* The Backspace branch of the keydown listener.
keydownBackspace(s) ==
  IF Truthy(s.input)
  THEN LET t == sliceDropLast(s.input)
       IN updateDisplay([s EXCEPT !.input = t],
                        IF Truthy(t) THEN t ELSE <<"0">>)
  ELSE [s EXCEPT !.operator = Null, !.status = EmptyText]

\* pressOperator(op) runs an evaluation in s.
OperatorEvaluates(s) == s.stored # Null /\ Truthy(s.input)

\* pressEquals() runs an evaluation in s.
EqualsEvaluates(s) == Truthy(s.operator)

ShadowOff == [on |-> FALSE, fresh |-> FALSE, st |-> clearAll(Null)]

Init ==
  /\ input = EmptyText
  /\ stored = Null
  /\ operator = Null
  /\ display = <<"0">>
  /\ status = EmptyText
  /\ prev = clearAll(Null)
  /\ lastEvent = [kind |-> "Clear", arg |-> EmptyText, failed |-> FALSE]
  /\ shadow = ShadowOff
  /\ typed = EmptyText
  /\ nEvents = 0

\* The handler that left s ran an evaluation that failed: it shows "Error"
\* in the place of the result, which is the text of a number.
Failed(s, evaluated) == evaluated /\ s.display = ErrorText

\* One event: the listener runs its handler to the end, which takes the
\* calculator from Cur to s (and the shadow calculator to sh); evaluated
\* says that the handler ran an evaluation.
Deliver(kind, arg, s, sh, evaluated) ==
  /\ nEvents < MaxEvents
  /\ input' = s.input
  /\ stored' = s.stored
  /\ operator' = s.operator
  /\ display' = s.display
  /\ status' = s.status
  /\ prev' = Cur
  /\ lastEvent' = [kind |-> kind, arg |-> arg,
                    failed |-> Failed(s, evaluated)]
  /\ shadow' = IF Failed(s, evaluated)
               THEN [on |-> TRUE, fresh |-> TRUE, st |-> clearAll(Cur)]
               ELSE IF shadow.on
               THEN [on |-> TRUE, fresh |-> FALSE, st |-> sh]
               ELSE shadow
  /\ typed' = IF kind = "Clear" THEN EmptyText
              ELSE IF kind = "Digit" /\ typed # Null THEN typed \o arg
              ELSE Null
  /\ nEvents' = nEvents + 1

Digit(ch) ==
  Deliver("Digit", <<ch>>, setInputChar(Cur, ch), setInputChar(shadow.st, ch),
          FALSE)

ToggleSign ==
  Deliver("ToggleSign", EmptyText, toggleSign(Cur), toggleSign(shadow.st),
          FALSE)

Percent ==
  Deliver("Percent", EmptyText, pressPercent(Cur), pressPercent(shadow.st),
          FALSE)

Operator(op) ==
  Deliver("Operator", op, pressOperator(Cur, op), pressOperator(shadow.st, op),
          OperatorEvaluates(Cur))

Equals ==
  Deliver("Equals", EmptyText, pressEquals(Cur), pressEquals(shadow.st),
          EqualsEvaluates(Cur))

Clear == Deliver("Clear", EmptyText, clearAll(Cur), clearAll(shadow.st), FALSE)

Backspace ==
  Deliver("Backspace", EmptyText, keydownBackspace(Cur),
          keydownBackspace(shadow.st), FALSE)

Next ==
  \/ \E ch \in Keys : Digit(ch)
  \/ ToggleSign
  \/ Percent
  \/ \E op \in Ops : Operator(op)
  \/ Equals
  \/ Clear
  \/ Backspace

Spec == Init /\ [][Next]_vars

(***************************************************************************)
(* Properties.  They read the last event and the state before it (prev).   *)
(***************************************************************************)
\* The last event ran an evaluation: an Operator with a stored operand and
\* an input, or an Equals with an operator pending.
Evaluated ==
  \/ lastEvent.kind = "Operator" /\ prev.stored # Null /\ prev.input # EmptyText
  \/ lastEvent.kind = "Equals" /\ prev.operator # Null

\* The operator, the left and the right operand text of that evaluation.
EvalOp ==
  IF lastEvent.kind = "Operator" /\ prev.operator = Null THEN lastEvent.arg
  ELSE prev.operator

EvalLeft == IF prev.stored = Null THEN <<"0">> ELSE prev.stored

EvalRight == IF prev.input = EmptyText THEN EvalLeft ELSE prev.input

\* The calculator after a successful evaluation that gave the text result:
\* the result is stored and displayed, the input is empty, the pending
\* operator is op (or none) and the status is st.
Settled(result, op, st) ==
  /\ stored = result
  /\ input = EmptyText
  /\ operator = op
  /\ display = result
  /\ status = st

\* The calculator after a failed evaluation.
Reset(error) ==
  /\ stored = Null
  /\ input = EmptyText
  /\ operator = Null
  /\ display = ErrorText
  /\ status = error

\* The calculator after the Operator event whose evaluation returned r,
\* when it succeeded.
Chained(r) ==
  r.ok => Settled(r.result, lastEvent.arg, r.result \o <<" ">> \o lastEvent.arg)

\* C1: an Operator(op) pressed with a stored operand and a non-empty input
\* evaluates stored <pending> input with the operator already pending (with
\* op only when none is pending), left to right; on success the formatted
\* result is stored and displayed, the input is empty, op is pending and
\* the status is "<result> <op>" (1 + 5 * gives 6, not 1 + 5 * ...).
C1_ChainedEvaluation ==
  (lastEvent.kind = "Operator" /\ prev.stored # Null /\ prev.input # EmptyText)
    => /\ Chained(computeLocal(prev.stored, prev.input, EvalOp))
       /\ (/\ prev.stored = <<"1">>
           /\ prev.operator = <<"+">>
           /\ prev.input = <<"5">>) => stored = <<"6">>

C1_Witness ==
  /\ lastEvent = [kind |-> "Operator", arg |-> <<"*">>, failed |-> FALSE]
  /\ prev.stored = <<"1">>
  /\ prev.operator = <<"+">>
  /\ prev.input = <<"5">>
  /\ stored = <<"6">>
  /\ operator = <<"*">>
  /\ status = <<"6", " ", "*">>

\* The calculator after the Equals event whose evaluation returned r, when
\* it succeeded.
Equalled(r) ==
  r.ok => Settled(r.result, Null,
                  EvalLeft \o <<" ">> \o prev.operator \o <<" ">>
                    \o EvalRight \o <<" ", "=">>)

\* C2: an Equals pressed with an operator pending whose evaluation succeeds
\* stores and displays the result, empties the input, leaves no operator
\* pending and sets the status to "<a> <op> <b> =", a and b being the
\* operand texts used (5 + 1 = gives display "6" and status "5 + 1 =").
C2_EqualsSuccess ==
  (lastEvent.kind = "Equals" /\ prev.operator # Null)
    => /\ Equalled(computeLocal(EvalLeft, EvalRight, prev.operator))
       /\ (/\ prev.stored = <<"5">>
           /\ prev.operator = <<"+">>
           /\ prev.input = <<"1">>)
            => /\ display = <<"6">>
               /\ status = <<"5", " ", "+", " ", "1", " ", "=">>

C2_Witness ==
  /\ lastEvent.kind = "Equals"
  /\ prev.stored = <<"5">>
  /\ prev.operator = <<"+">>
  /\ prev.input = <<"1">>
  /\ stored = <<"6">>
  /\ operator = Null
  /\ input = EmptyText

\* The display and the status after the Equals event whose evaluation, with
\* the right operand text right, returned r.
OutcomeOf(r, right) ==
  IF r.ok
  THEN /\ display = r.result
       /\ status = EvalLeft \o <<" ">> \o prev.operator \o <<" ">> \o right
                     \o <<" ", "=">>
  ELSE Reset(r.error)

\* C3: the right operand of an Equals with an operator pending is the input
\* when it is not empty and the left operand (stored, or "0" when absent)
\* when it is: the outcome is that of left <op> right with that right
\* operand (5 + = evaluates 5 + 5).
C3_RightOperandFallback ==
  (lastEvent.kind = "Equals" /\ prev.operator # Null)
    => /\ prev.input = EmptyText
            => OutcomeOf(computeLocal(EvalLeft, EvalLeft, prev.operator),
                         EvalLeft)
       /\ prev.input # EmptyText
            => OutcomeOf(computeLocal(EvalLeft, prev.input, prev.operator),
                         prev.input)
       /\ (/\ prev.stored = <<"5">>
           /\ prev.operator = <<"+">>
           /\ prev.input = EmptyText)
            => /\ display = <<"1", "0">>
               /\ status = <<"5", " ", "+", " ", "5", " ", "=">>

C3_Witness ==
  /\ lastEvent.kind = "Equals"
  /\ prev.stored = <<"5">>
  /\ prev.operator = <<"+">>
  /\ prev.input = EmptyText
  /\ display = <<"1", "0">>
  /\ status = <<"5", " ", "+", " ", "5", " ", "=">>

\* C4: every evaluation with the operator / or % and a right operand that
\* is numerically zero ends in the error "Division by zero": the status
\* shows it and the display shows "Error".
C4_DivisionByZero ==
  (/\ Evaluated
   /\ EvalOp \in {<<"/">>, <<"%">>}
   /\ IsZero(parseFloat(EvalRight)))
    => /\ status = DivisionByZero
       /\ display = ErrorText

\* The calculator after the evaluation that returned r, when it failed.
ResetWhenFailed(r) == ~r.ok => Reset(r.error)

\* C5: every failed evaluation, of an Operator or of an Equals, leaves no
\* stored operand, an empty input and no pending operator, the display
\* "Error" and the status the error message; a Digit("1") after it gives
\* the display "1".
C5_ErrorResets ==
  /\ Evaluated => ResetWhenFailed(computeLocal(EvalLeft, EvalRight, EvalOp))
  /\ (/\ lastEvent.kind = "Digit"
      /\ lastEvent.arg = <<"1">>
      /\ prev.display = ErrorText) => display = <<"1">>

C5_Witness ==
  /\ lastEvent.kind = "Digit"
  /\ lastEvent.arg = <<"1">>
  /\ prev.display = ErrorText
  /\ prev.status = DivisionByZero
  /\ prev.stored = Null
  /\ prev.input = EmptyText
  /\ prev.operator = Null
  /\ display = <<"1">>

C7_OperatorNeedsStored ==
  /\ operator # Null => stored # Null
  /\ (lastEvent.kind = "Equals" /\ prev.operator # Null) => prev.stored # Null

C7_Witness ==
  /\ lastEvent.kind = "Equals"
  /\ prev.operator # Null
  /\ prev.stored # Null
  /\ prev.input = EmptyText

\* C8: in every reachable state the input, when not empty, is made of the
\* digits 0-9 and at most one ".", after an optional leading "-".
C8_InputIsDecimal ==
  input # EmptyText
    => /\ \A i \in 1..Len(input) :
            \/ IsDigit(input[i])
            \/ input[i] = "."
            \/ (i = 1 /\ input[i] = "-")
       /\ \A i, j \in 1..Len(input) :
            (input[i] = "." /\ input[j] = ".") => i = j

\* C9: in every reachable state the stored operand, when present, is in
\* the output form of formatNumber: it is the text formatNumber gives for
\* the number it reads as.
C9_StoredIsFormatted ==
  stored # Null => formatNumber(parseFloat(stored)) = stored

\* C10: no sequence of events from the cleared state produces the error
\* "Invalid number".
C10_NoInvalidNumber == status # InvalidNumber

\* C11 as stated: after every event the display is the input, the stored
\* operand, "0" (only when the input is empty and no operand is stored) or
\* "Error" (only when the event failed an evaluation).
C11_DisplayText ==
  \/ display = input
  \/ display = stored
  \/ display = <<"0">> /\ input = EmptyText /\ stored = Null
  \/ display = ErrorText /\ lastEvent.failed

\* C11 amended: after every event the display is the input, the stored
\* operand, "0" (only when the input is empty, an operand stored or not) or
\* "Error" (only when an evaluation has failed and the input, the stored
\* operand and the pending operator are still the cleared ones it left);
\* an input that is not empty is always the text displayed.
C11_DisplayIsOperandText ==
  /\ \/ display = input
     \/ display = stored
     \/ display = <<"0">> /\ input = EmptyText
     \/ /\ display = ErrorText
        /\ shadow.on
        /\ input = EmptyText
        /\ stored = Null
        /\ operator = Null
  /\ input # EmptyText => display = input

C11_Witness ==
  /\ lastEvent.kind = "Backspace"
  /\ prev.input = <<"1">>
  /\ input = EmptyText
  /\ stored = <<"5">>
  /\ display = <<"0">>

\* C12: an Operator(op) pressed with no stored operand and a non-empty
\* input stores the text of the input as it is, empties the input, makes op
\* the pending operator, displays the stored operand and sets the status
\* to "<stored> <op>"; nothing is evaluated.
C12_FirstOperandStored ==
  (lastEvent.kind = "Operator" /\ prev.stored = Null /\ prev.input # EmptyText)
    => /\ stored = prev.input
       /\ input = EmptyText
       /\ operator = lastEvent.arg
       /\ display = prev.input
       /\ status = prev.input \o <<" ">> \o lastEvent.arg
       /\ ~lastEvent.failed

C12_Witness ==
  /\ lastEvent = [kind |-> "Operator", arg |-> <<"*">>, failed |-> FALSE]
  /\ prev.stored = Null
  /\ prev.input = <<"1", ".", "5", "0">>
  /\ stored = <<"1", ".", "5", "0">>
  /\ operator = <<"*">>
  /\ status = <<"1", ".", "5", "0", " ", "*">>

\* C13: an Operator(op) pressed while the input is empty evaluates nothing
\* and leaves the stored operand, the input and the display as they were:
\* with an operand stored, op replaces the pending operator (5 + - leaves
\* 5 stored with - pending, and 1 = then displays 4); with none, nothing
\* changes at all.
C13_OperatorWithoutInput ==
  /\ (lastEvent.kind = "Operator" /\ prev.input = EmptyText)
       => /\ stored = prev.stored
          /\ input = EmptyText
          /\ display = prev.display
          /\ ~lastEvent.failed
          /\ prev.stored # Null => operator = lastEvent.arg
          /\ prev.stored = Null => Cur = prev
  /\ (/\ lastEvent.kind = "Equals"
      /\ prev.stored = <<"5">>
      /\ prev.operator = <<"-">>
      /\ prev.input = <<"1">>) => display = <<"4">>

C13_Witness ==
  /\ lastEvent = [kind |-> "Operator", arg |-> <<"-">>, failed |-> FALSE]
  /\ prev.input = EmptyText
  /\ prev.stored = <<"5">>
  /\ prev.operator = <<"+">>
  /\ stored = <<"5">>
  /\ operator = <<"-">>
  /\ display = <<"5">>

\* C14: an Equals pressed while no operator is pending leaves the stored
\* operand, the input and the pending operator as they were, evaluates
\* nothing and raises no error (the status is unchanged and the display
\* does not turn to "Error"), also when the input is empty and no operand
\* is stored.
C14_EqualsWithoutOperator ==
  (lastEvent.kind = "Equals" /\ prev.operator = Null)
    => /\ stored = prev.stored
       /\ input = prev.input
       /\ operator = Null
       /\ status = prev.status
       /\ ~lastEvent.failed
       /\ display = ErrorText => prev.display = ErrorText
       /\ (prev.input = EmptyText /\ prev.stored = Null) => Cur = prev

C14_Witness ==
  /\ lastEvent.kind = "Equals"
  /\ prev.operator = Null
  /\ prev.stored = <<"5">>
  /\ prev.input = EmptyText
  /\ stored = <<"5">>
  /\ input = EmptyText
  /\ operator = Null
  /\ display = <<"5">>

\* The text of the number of the text t divided by 100.
Hundredth(t) == formatNumber(DivV(parseFloat(t), Hundred))

\* C15: a Percent acts on the active operand only: a non-empty input is
\* replaced by its value divided by 100, formatted, and the stored operand
\* is left as it was; with an empty input the stored operand, if any, is
\* replaced by its value divided by 100; the pending operator is unchanged
\* in all cases (5 0 Percent with nothing stored displays "0.5").
C15_PercentActiveSlot ==
  lastEvent.kind = "Percent"
    => /\ operator = prev.operator
       /\ prev.input # EmptyText
            => input = Hundredth(prev.input) /\ stored = prev.stored
       /\ (prev.input = EmptyText /\ prev.stored # Null)
            => stored = Hundredth(prev.stored) /\ input = EmptyText
       /\ (prev.input = EmptyText /\ prev.stored = Null)
            => input = EmptyText /\ stored = Null
       /\ (prev.input = <<"5", "0">> /\ prev.stored = Null)
            => display = <<"0", ".", "5">>

\* The calculator s differs from the state before the last event in nothing
\* but the status.
Restored(s) ==
  /\ s.input = prev.input
  /\ s.stored = prev.stored
  /\ s.operator = prev.operator
  /\ s.display = prev.display

\* C16 as stated: a ToggleSign after a ToggleSign gives back the input, the
\* stored operand, the pending operator and the display that were there
\* before the first one, in every reachable state.
C16_Involution == lastEvent.kind = "ToggleSign" => Restored(toggleSign(Cur))

\* The text t with its sign flipped is u.
Flipped(t, u) == u = <<"-">> \o t \/ t = <<"-">> \o u

\* The calculator s has the input, the stored operand and the pending
\* operator of the state before the last event, and its display if that
\* one showed the operand act.
RestoredOperand(s, act) ==
  /\ s.input = prev.input
  /\ s.stored = prev.stored
  /\ s.operator = prev.operator
  /\ prev.display = act => s.display = prev.display

\* C16 amended: a ToggleSign flips the sign of the input when it is not
\* empty and otherwise of the stored operand, if any (with neither, the
\* input becomes "-0"); a ToggleSign after a ToggleSign gives back the
\* input, the stored operand and the pending operator that were there
\* before the first one when the input was neither empty nor the sign "-"
\* alone, or was empty with an operand stored, and the display too when it
\* showed the operand flipped (-5 gives 5, and 5 gives -5 again).
C16_InvolutionOnOperand ==
  lastEvent.kind = "ToggleSign"
    => /\ prev.input # EmptyText
            => /\ Flipped(prev.input, input)
               /\ stored = prev.stored
               /\ operator = prev.operator
               /\ display = input
       /\ (prev.input = EmptyText /\ prev.stored # Null)
            => /\ Flipped(prev.stored, stored)
               /\ input = EmptyText
               /\ operator = prev.operator
               /\ display = stored
               /\ RestoredOperand(toggleSign(Cur), prev.stored)
       /\ (prev.input = EmptyText /\ prev.stored = Null)
            => input = <<"-", "0">>
       /\ (prev.input # EmptyText /\ prev.input # <<"-">>)
            => RestoredOperand(toggleSign(Cur), prev.input)

C16_Witness ==
  /\ lastEvent.kind = "ToggleSign"
  /\ prev.input = <<"-", "5">>
  /\ prev.display = <<"-", "5">>
  /\ input = <<"5">>
  /\ display = <<"5">>
  /\ toggleSign(Cur).input = <<"-", "5">>

\* The places of the keys k that count: every digit, and the first ".".
Counted(k) ==
  {i \in 1..Len(k) : k[i] # "." \/ \A j \in 1..(i - 1) : k[j] # "."}

\* The n-th of the places c, in order.
NthOf(c, n) == CHOOSE i \in c : Cardinality({j \in c : j <= i}) = n

\* The keys k without the "." that come after a first one.
OneDot(k) == [n \in 1..Cardinality(Counted(k)) |-> k[NthOf(Counted(k), n)]]

\* The number of "0" at the head of the keys k.
LeadingZeros(k) ==
  CHOOSE z \in 0..Len(k) :
    /\ \A i \in 1..z : k[i] = "0"
    /\ (z = Len(k) \/ k[z + 1] # "0")

\* The keys k, z zeros at their head, with those zeros collapsed: they go
\* before a digit, one stays before a "." or when nothing follows, and a
\* "." at the head gets a "0" before it.
CollapsedFrom(k, z) ==
  IF z = Len(k) THEN (IF z > 0 THEN <<"0">> ELSE <<>>)
  ELSE IF k[z + 1] = "." THEN <<"0">> \o SubSeq(k, z + 1, Len(k))
  ELSE SubSeq(k, z + 1, Len(k))

\* The text that the digit-entry rule makes of the keys k.
Entered(k) == CollapsedFrom(<<>> \o OneDot(k), LeadingZeros(<<>> \o OneDot(k)))

\* C17: after every sequence of Digit events on the cleared state, the
\* display (and the input) is the sequence typed with the digit-entry rule
\* applied: the zeros at the head collapse to one, which the next digit
\* that is not "." replaces, a "." at the head becomes "0.", a "." after
\* the first one is dropped and every other character is appended.
C17_DigitEntry ==
  (typed # Null /\ typed # EmptyText)
    => display = Entered(typed) /\ input = Entered(typed)

C17_Witness ==
  /\ typed = <<"0", "0", "5", ".", ".">>
  /\ display = <<"5", ".">>

\* C18: a Digit(".") on an input that has a "." already leaves the input,
\* the stored operand, the pending operator and the display as they were.
C18_SecondDotIgnored ==
  (lastEvent.kind = "Digit" /\ lastEvent.arg = <<".">> /\ includes(prev.input, "."))
    => /\ input = prev.input
       /\ stored = prev.stored
       /\ operator = prev.operator
       /\ display = prev.display

C18_Witness ==
  /\ lastEvent.kind = "Digit"
  /\ lastEvent.arg = <<".">>
  /\ prev.input = <<"1", ".", "5">>
  /\ input = <<"1", ".", "5">>
  /\ display = <<"1", ".", "5">>

C20_DisplayNotBlank == display # EmptyText

====
